---- MODULE Spec2Model ----
(***************************************************************************)
(* Model of the data acquisition sketch: the tagged-frame serial protocol  *)
(* of send.h, the Sample Record of data.h, and the MPU6050 setup and burst *)
(* read of fast_mpu6050.h.                                                 *)
(*                                                                         *)
(* Bytes are integers 0..255.  Text is a sequence of character codes.      *)
(* The serial stream is the sequence of bytes handed to Serial, the bus    *)
(* log is the sequence of calls made on Wire.                              *)
(***************************************************************************)
EXTENDS Integers, Sequences, FiniteSets, TLC

VARIABLES
    serial,     \* bytes written to Serial so far, oldest first
    halted,     \* TRUE once control sits in the while(1) of ERROR
    ops,        \* history: the send operations called, with the stream length at each call
    dat,        \* the caller's struct Data
    setupPc,    \* position inside SetupMPU6050
    has_reset,  \* the local of SetupMPU6050
    pollReads,  \* history: what Wire.read() returned in each iteration of the reset loop
    bus,        \* history: the calls made on Wire
    fillPc,     \* position inside FillDataMPU6050
    rx,         \* Wire's receive buffer: bytes delivered by requestFrom and not yet read
    burst,      \* history: the bytes the last 14-byte request delivered
    fills       \* history: number of FillDataMPU6050 calls begun

vars == <<serial, halted, ops, dat, setupPc, has_reset, pollReads, bus, fillPc, rx, burst, fills>>

sendVars == <<serial, halted, ops>>
sensorVars == <<setupPc, has_reset, pollReads, bus, fillPc, rx, burst, fills>>

---------------------------------------------------------------------------
(* Bounds of the model *)

\* send operations a caller makes in one run
MaxOps == 4
\* SendErrorCode calls in one run of the error-code specification
MaxErrOps == 1
\* iterations of the reset loop that are followed
MaxPolls == 4
\* FillDataMPU6050 calls in one run
MaxFills == 1
\* send operations in one run of the whole system
MaxSysOps == 2

---------------------------------------------------------------------------
(* send.h: the communication format *)

BYTE_MESSAGE == 0
BYTE_DATA_START == 1
BYTE_DATA_ELEMENT == 2
BYTE_DATA_END == 3
BYTE_HEARTBEAT == 250
BYTE_ERROR == 255

\* '\n'
LF == 10
\* '-'
MINUS == 45

\* the literal "---ERROR---" of the ERROR macro
ERROR_TEXT == <<45, 45, 45, 69, 82, 82, 79, 82, 45, 45, 45>>
\* the literal "  Error: 0x" of SendErrorCode
ERROR_CODE_PREFIX == <<32, 32, 69, 114, 114, 111, 114, 58, 32, 48, 120>>

HEX == 16
DEC == 10

\* one digit as Print::printNumber renders it: '0'..'9', then 'A'..
DigitChar(c) == IF c < 10 THEN c + 48 ELSE c + 65 - 10

\* Print::printNumber(n, base): the digits of n, most significant first,
\* at least one digit (do { ... } while (n)), no padding
RECURSIVE printNumber(_, _)
printNumber(n, base) ==
    IF n < base THEN <<DigitChar(n)>>
    ELSE printNumber(n \div base, base) \o <<DigitChar(n % base)>>

\* Serial.print(t) for the argument kinds used here: a C string is written
\* as its characters, an int as an optional '-' and its decimal digits
SerialPrint(t) ==
    IF t.kind = "str" THEN t.s
    ELSE IF t.n < 0 THEN <<MINUS>> \o printNumber(-t.n, DEC)
    ELSE printNumber(t.n, DEC)

\* mutant of _VSend: the rest is sent before the first argument
RECURSIVE VSendReversed(_)
VSendReversed(args) ==
    IF Len(args) = 1 THEN SerialPrint(args[1])
    ELSE VSendReversed(Tail(args)) \o SerialPrint(args[1])

\* _VSend(t, rest...): _VSend(t) then _VSend(rest...)
RECURSIVE VSend(_)
VSend(args) ==
    IF Len(args) = 1 THEN SerialPrint(args[1])
    ELSE SerialPrint(args[1]) \o VSend(Tail(args))

\* mutant of Send: the terminating zero byte is not written
SendBytesNoTerminator(args) == <<BYTE_MESSAGE>> \o VSend(args)

\* the bytes Send(args...) writes
SendBytes(args) == <<BYTE_MESSAGE>> \o VSend(args) \o <<0>>

\* mutant of SendLine: the line feed is written after the terminator
SendLineBytesLfLast(args) == <<BYTE_MESSAGE>> \o VSend(args) \o <<0>> \o <<LF>>

\* the bytes SendLine(args...) writes
SendLineBytes(args) == <<BYTE_MESSAGE>> \o VSend(args) \o <<LF>> \o <<0>>

\* the bytes SendErrorCode(error_code) writes
SendErrorCodeBytes(error_code) ==
    <<BYTE_MESSAGE>> \o ERROR_CODE_PREFIX \o printNumber(error_code, HEX)
        \o <<LF>> \o <<0>>

---------------------------------------------------------------------------
(* data.h: struct Data and its bytes in memory *)

\* v as n bytes, least significant first (the AVR is little-endian)
RECURSIVE LittleEndian(_, _)
LittleEndian(v, n) ==
    IF n = 0 THEN <<>> ELSE <<v % 256>> \o LittleEndian(v \div 256, n - 1)

\* an int16_t as its 16-bit two's complement pattern
U16(v) == (v + 65536) % 65536

\* a 16-bit pattern as the int16_t it is
S16(u) == IF u >= 32768 THEN u - 65536 ELSE u

\* A uint32_t is held as its two 16-bit halves <<high, low>>, value
\* high * 65536 + low: TLC's integers are 32-bit signed.
\* Its four bytes, least significant first:
U32Bytes(w) == LittleEndian(w[2], 2) \o LittleEndian(w[1], 2)

\* the object representation of struct Data: the fields in declaration
\* order, no padding (every field is aligned at its own size)
DataBytes(d) ==
    U32Bytes(d.micros) \o LittleEndian(d.analog, 2)
        \o <<d.btn_0>> \o <<d.btn_1>>
        \o LittleEndian(U16(d.lin_acc_x), 2) \o LittleEndian(U16(d.lin_acc_y), 2)
        \o LittleEndian(U16(d.lin_acc_z), 2)
        \o LittleEndian(U16(d.rot_vel_x), 2) \o LittleEndian(U16(d.rot_vel_y), 2)
        \o LittleEndian(U16(d.rot_vel_z), 2)

\* sizeof(struct Data)
SizeofData == 4 + 2 + 1 + 1 + 3 * 2 + 3 * 2

\* mutant of SendData: the int16 fields are written as one byte each
SendDataBytesNarrow(d) ==
    <<BYTE_DATA_ELEMENT>> \o U32Bytes(d.micros) \o LittleEndian(d.analog, 2)
        \o <<d.btn_0>> \o <<d.btn_1>>
        \o LittleEndian(U16(d.lin_acc_x), 1) \o LittleEndian(U16(d.lin_acc_y), 1)
        \o LittleEndian(U16(d.lin_acc_z), 1)
        \o LittleEndian(U16(d.rot_vel_x), 1) \o LittleEndian(U16(d.rot_vel_y), 1)
        \o LittleEndian(U16(d.rot_vel_z), 1)

\* mutant of SendData: the tag byte is not written
SendDataBytesNoTag(d) == SubSeq(DataBytes(d), 1, SizeofData)

\* the bytes SendData(dat) writes
SendDataBytes(d) == <<BYTE_DATA_ELEMENT>> \o SubSeq(DataBytes(d), 1, SizeofData)

---------------------------------------------------------------------------
(* Inputs of the send operations *)

Str(s) == [kind |-> "str", s |-> s, n |-> 0]
Num(n) == [kind |-> "int", s |-> <<>>, n |-> n]

\* argument lists handed to Send and SendLine: "Hi" / "n=", -42 / 7, "", 250
SendArgs ==
    { <<Str(<<72, 105>>)>>,
      <<Str(<<110, 61>>), Num(-42)>>,
      <<Num(7), Str(<<>>), Num(250)>> }

\* error codes handed to SendErrorCode by the framing specification
ErrorCodes == {10, 240}

\* a struct Data value
MkData(m, a, b0, b1, ax, ay, az, gx, gy, gz) ==
    [micros |-> m, analog |-> a, btn_0 |-> b0, btn_1 |-> b1,
     lin_acc_x |-> ax, lin_acc_y |-> ay, lin_acc_z |-> az,
     rot_vel_x |-> gx, rot_vel_y |-> gy, rot_vel_z |-> gz]

\* the records a caller holds: the spec's example (micros = 123456 =
\* 1 * 65536 + 57920), the extremes of every field (micros = 2^32 - 1), and
\* one whose bytes are the frame tags
Records ==
    { MkData(<<1, 57920>>, 512, 1, 0, 100, -200, 300, -50, 0, 50),
      MkData(<<65535, 65535>>, 1023, 1, 1, -32768, 32767, -1, 0, 1, 258),
      MkData(<<770, 256>>, 64001, 0, 1, 513, 3, -6, 255, 250, -256) }

---------------------------------------------------------------------------
(* send.h: the operations, as a caller runs them *)

Called(name, arg) == Append(ops, [op |-> name, arg |-> arg, at |-> Len(serial)])

CanCall == ~halted /\ Len(ops) < MaxOps

Send(args) ==
    /\ CanCall
    /\ serial' = serial \o SendBytes(args)
    /\ ops' = Called("Send", args)
    /\ UNCHANGED <<halted, dat, sensorVars>>

SendLine(args) ==
    /\ CanCall
    /\ serial' = serial \o SendLineBytes(args)
    /\ ops' = Called("SendLine", args)
    /\ UNCHANGED <<halted, dat, sensorVars>>

SendErrorCode(error_code) ==
    /\ CanCall
    /\ serial' = serial \o SendErrorCodeBytes(error_code)
    /\ ops' = Called("SendErrorCode", error_code)
    /\ UNCHANGED <<halted, dat, sensorVars>>

SendDataStart ==
    /\ CanCall
    /\ serial' = serial \o <<BYTE_DATA_START>>
    /\ ops' = Called("SendDataStart", 0)
    /\ UNCHANGED <<halted, dat, sensorVars>>

SendData ==
    /\ CanCall
    /\ serial' = serial \o SendDataBytes(dat)
    /\ ops' = Called("SendData", dat)
    /\ UNCHANGED <<halted, dat, sensorVars>>

SendDataEnd ==
    /\ CanCall
    /\ serial' = serial \o <<BYTE_DATA_END>>
    /\ ops' = Called("SendDataEnd", 0)
    /\ UNCHANGED <<halted, dat, sensorVars>>

SendHeartbeat ==
    /\ CanCall
    /\ serial' = serial \o <<BYTE_HEARTBEAT>>
    /\ ops' = Called("SendHeartbeat", 0)
    /\ UNCHANGED <<halted, dat, sensorVars>>

\* mutant of ERROR: the marker is written and control returns to the caller
ErrorReturns ==
    /\ CanCall
    /\ serial' = serial \o SendLineBytes(<<Str(ERROR_TEXT)>>) \o <<BYTE_ERROR>>
    /\ ops' = Called("ERROR", 0)
    /\ UNCHANGED <<halted, dat, sensorVars>>

\* the ERROR macro: SendLine("---ERROR---"); Serial.write(BYTE_ERROR); while (1) ;
ERROR ==
    /\ CanCall
    /\ serial' = serial \o SendLineBytes(<<Str(ERROR_TEXT)>>) \o <<BYTE_ERROR>>
    /\ halted' = TRUE
    /\ ops' = Called("ERROR", 0)
    /\ UNCHANGED <<dat, sensorVars>>

\* the acquisition loop writes the fields of its record between sends
Sample ==
    /\ ~halted
    /\ dat' \in Records \ {dat}
    /\ UNCHANGED <<sendVars, sensorVars>>

SensorIdle ==
    /\ setupPc = "idle"
    /\ has_reset = FALSE
    /\ pollReads = <<>>
    /\ bus = <<>>
    /\ fillPc = "idle"
    /\ rx = <<>>
    /\ burst = <<>>
    /\ fills = 0

SendInit ==
    /\ serial = <<>>
    /\ halted = FALSE
    /\ ops = <<>>
    /\ dat \in Records
    /\ SensorIdle

SendNext ==
    \/ \E args \in SendArgs : Send(args)
    \/ \E args \in SendArgs : SendLine(args)
    \/ \E error_code \in ErrorCodes : SendErrorCode(error_code)
    \/ SendDataStart
    \/ SendData
    \/ SendDataEnd
    \/ SendHeartbeat
    \/ ERROR
    \/ Sample

\* the framing protocol under any caller
SpecSend == SendInit /\ [][SendNext]_vars

\* the error-code helper alone, over every byte value
ErrorCodeNext ==
    \E error_code \in 0..255 : Len(ops) < MaxErrOps /\ SendErrorCode(error_code)

SpecErrorCode == SendInit /\ [][ErrorCodeNext]_vars

---------------------------------------------------------------------------
(* fast_mpu6050.h: registers, and the Wire calls as the bus log records them *)

I2C_CLOCK_HZ == 1000000
MPU6050_ADDR == 104
MPU6050_SIGNAL_PATH_RESET == 104
MPU6050_PWR_MGMT_1 == 107
MPU6050_DATA_OUT == 59

\* 0b10000000, the DEVICE_RESET bit
DEVICE_RESET == 128
\* 0b00000111, GYRO_RESET | ACCEL_RESET | TEMP_RESET
SIGNAL_RESETS == 7
\* bytes asked for by the burst read
BURST_LEN == 14
\* delay(100)
SETTLE_MS == 100

\* one call on Wire (or delay), with its argument; a read carries the value
\* it returned, endTransmission carries sendStop as 0 / 1
Ev(call, arg) == [call |-> call, arg |-> arg]

\* Wire.read(): the next byte of the receive buffer, -1 when it is empty
WireReadEmptyIsZero(buf) == IF buf = <<>> THEN 0 ELSE Head(buf)

WireRead(buf) == IF buf = <<>> THEN -1 ELSE Head(buf)

\* the receive buffer after that read
WireAfterRead(buf) == IF buf = <<>> THEN <<>> ELSE Tail(buf)

\* a & b on 16-bit patterns
RECURSIVE BitAnd16(_, _)
BitAnd16(a, b) ==
    IF a = 0 \/ b = 0 THEN 0
    ELSE (a % 2) * (b % 2) + 2 * BitAnd16(a \div 2, b \div 2)

\* a | b on 16-bit patterns
RECURSIVE BitOr16(_, _)
BitOr16(a, b) ==
    IF a = 0 THEN b
    ELSE IF b = 0 THEN a
    ELSE (IF a % 2 = 1 \/ b % 2 = 1 THEN 1 ELSE 0) + 2 * BitOr16(a \div 2, b \div 2)

\* mutant of the loop test: the negation is missing
HasResetNotNegated(v) == BitAnd16(U16(v), DEVICE_RESET) # 0

\* mutant of the loop test: a read that delivered nothing counts as clear
HasResetNoData(v) == v < 0 \/ BitAnd16(U16(v), DEVICE_RESET) = 0

\* !(Wire.read() & 0b10000000), on the int that Wire.read() returned
HasReset(v) == BitAnd16(U16(v), DEVICE_RESET) = 0

\* lines 45-51: join the bus, set the clock, write the reset bit
ResetCalls ==
    << Ev("begin", MPU6050_ADDR), Ev("setClock", I2C_CLOCK_HZ),
       Ev("beginTransmission", MPU6050_ADDR), Ev("write", MPU6050_PWR_MGMT_1),
       Ev("write", DEVICE_RESET), Ev("endTransmission", 0) >>

\* lines 55-58: one iteration of the reset loop, whose read returned v
PollCalls(v) ==
    << Ev("write", MPU6050_PWR_MGMT_1), Ev("endTransmission", 0),
       Ev("requestFrom", 1), Ev("read", v) >>

\* mutant of lines 60-65: the settle delay is missing
SignalPathResetCallsNoDelay ==
    << Ev("beginTransmission", MPU6050_ADDR),
       Ev("write", MPU6050_SIGNAL_PATH_RESET), Ev("write", SIGNAL_RESETS),
       Ev("endTransmission", 0) >>

\* lines 60-65
SignalPathResetCalls ==
    << Ev("delay", SETTLE_MS), Ev("beginTransmission", MPU6050_ADDR),
       Ev("write", MPU6050_SIGNAL_PATH_RESET), Ev("write", SIGNAL_RESETS),
       Ev("endTransmission", 0) >>

\* lines 66-71
WakeCalls ==
    << Ev("delay", SETTLE_MS), Ev("beginTransmission", MPU6050_ADDR),
       Ev("write", MPU6050_PWR_MGMT_1), Ev("write", 0), Ev("endTransmission", 1) >>

\* what a one-byte request can deliver: nothing, or the byte of the device
PollResponses == { <<>>, <<0>>, <<64>>, <<128>>, <<192>>, <<255>> }

---------------------------------------------------------------------------
(* SetupMPU6050, statement by statement *)

SetupReset ==
    /\ setupPc = "idle"
    /\ bus' = bus \o ResetCalls
    /\ has_reset' = FALSE
    /\ setupPc' = "poll"
    /\ UNCHANGED <<sendVars, dat, pollReads, fillPc, rx, burst, fills>>

\* one pass of while (!has_reset) { ... }, the request answered from responses
SetupPollFrom(responses) ==
    /\ setupPc = "poll"
    /\ ~has_reset
    /\ Len(pollReads) < MaxPolls
    /\ \E resp \in responses :
        LET v == WireRead(resp) IN
        /\ bus' = bus \o PollCalls(v)
        /\ rx' = WireAfterRead(resp)
        /\ pollReads' = Append(pollReads, v)
        /\ has_reset' = HasReset(v)
        /\ setupPc' = IF HasReset(v) THEN "signal_path_reset" ELSE "poll"
    /\ UNCHANGED <<sendVars, dat, fillPc, burst, fills>>

SetupPoll == SetupPollFrom(PollResponses)

SetupSignalPathReset ==
    /\ setupPc = "signal_path_reset"
    /\ bus' = bus \o SignalPathResetCalls
    /\ setupPc' = "wake"
    /\ UNCHANGED <<sendVars, dat, has_reset, pollReads, fillPc, rx, burst, fills>>

SetupWake ==
    /\ setupPc = "wake"
    /\ bus' = bus \o WakeCalls
    /\ setupPc' = "configured"
    /\ UNCHANGED <<sendVars, dat, has_reset, pollReads, fillPc, rx, burst, fills>>

SetupMPU6050 == SetupReset \/ SetupPoll \/ SetupSignalPathReset \/ SetupWake

SetupInit ==
    /\ serial = <<>>
    /\ halted = FALSE
    /\ ops = <<>>
    /\ dat \in Records
    /\ SensorIdle

\* sensor initialization against any device
SpecSetup == SetupInit /\ [][SetupMPU6050]_vars

---------------------------------------------------------------------------
(* FillDataMPU6050, statement by statement *)

\* (hi << 8) | lo on 16-bit ints, assigned to an int16_t
HighLow(hi, lo) == S16(BitOr16((U16(hi) * 256) % 65536, U16(lo)))

\* full 14-byte answers of the device: the spec's example (100, -200, 300,
\* temperature, -50, 0, 50), the extremes, and fourteen different bytes
FullBursts ==
    { <<0, 100, 255, 56, 1, 44, 12, 128, 255, 206, 0, 0, 0, 50>>,
      <<128, 0, 127, 255, 255, 255, 18, 52, 0, 1, 1, 0, 255, 0>>,
      <<1, 2, 3, 4, 5, 6, 7, 8, 9, 10, 11, 12, 13, 14>> }

\* what the request can deliver: a full answer, or only its first n bytes
Bursts == { SubSeq(b, 1, n) : b \in FullBursts, n \in 0..BURST_LEN }

\* lines 79-82: address the first data register, request 14 bytes, the
\* request answered from responses
FillRequestFrom(responses) ==
    /\ fillPc = "idle"
    /\ fills < MaxFills
    /\ \E resp \in responses :
        /\ rx' = resp
        /\ burst' = resp
    /\ bus' = bus \o << Ev("beginTransmission", MPU6050_ADDR), Ev("write", MPU6050_DATA_OUT),
                        Ev("endTransmission", 0), Ev("requestFrom", BURST_LEN) >>
    /\ fills' = fills + 1
    /\ fillPc' = "lin_acc_x"
    /\ UNCHANGED <<sendVars, dat, setupPc, has_reset, pollReads>>

FillRequest == FillRequestFrom(Bursts)

\* dat->field = (Wire.read() << 8) | Wire.read();
\* The two reads are operands of |, which C++ leaves unsequenced: the build
\* decides which of them is called first (rightFirst).
FillPair(field, next) ==
    /\ fillPc = field
    /\ \E rightFirst \in BOOLEAN :
        LET first == WireRead(rx)
            second == WireRead(WireAfterRead(rx))
        IN  dat' = [dat EXCEPT ![field] =
                      IF rightFirst THEN HighLow(second, first)
                      ELSE HighLow(first, second)]
    /\ bus' = bus \o << Ev("read", WireRead(rx)), Ev("read", WireRead(WireAfterRead(rx))) >>
    /\ rx' = WireAfterRead(WireAfterRead(rx))
    /\ fillPc' = next
    /\ fills' = fills
    /\ UNCHANGED <<sendVars, setupPc, has_reset, pollReads, burst>>

\* mutant of line 86: the temperature is kept, in the analog field
FillTemperatureKept ==
    /\ fillPc = "temperature"
    /\ dat' = [dat EXCEPT !.analog =
                 U16(HighLow(WireRead(rx), WireRead(WireAfterRead(rx))))]
    /\ bus' = bus \o << Ev("read", WireRead(rx)), Ev("read", WireRead(WireAfterRead(rx))) >>
    /\ rx' = WireAfterRead(WireAfterRead(rx))
    /\ fillPc' = "rot_vel_x"
    /\ UNCHANGED <<sendVars, setupPc, has_reset, pollReads, burst, fills>>

\* mutant of line 86: only one of the two temperature bytes is read
FillTemperatureOneRead ==
    /\ fillPc = "temperature"
    /\ bus' = bus \o << Ev("read", WireRead(rx)) >>
    /\ rx' = WireAfterRead(rx)
    /\ fillPc' = "rot_vel_x"
    /\ UNCHANGED <<sendVars, dat, setupPc, has_reset, pollReads, burst, fills>>

\* line 86: Wire.read(); Wire.read();
FillTemperature ==
    /\ fillPc = "temperature"
    /\ bus' = bus \o << Ev("read", WireRead(rx)), Ev("read", WireRead(WireAfterRead(rx))) >>
    /\ rx' = WireAfterRead(WireAfterRead(rx))
    /\ fillPc' = "rot_vel_x"
    /\ UNCHANGED <<sendVars, dat, setupPc, has_reset, pollReads, burst, fills>>

FillDataMPU6050 ==
    \/ FillRequest
    \/ FillPair("lin_acc_x", "lin_acc_y")
    \/ FillPair("lin_acc_y", "lin_acc_z")
    \/ FillPair("lin_acc_z", "temperature")
    \/ FillTemperature
    \/ FillPair("rot_vel_x", "rot_vel_y")
    \/ FillPair("rot_vel_y", "rot_vel_z")
    \/ FillPair("rot_vel_z", "idle")

\* the state SetupMPU6050 leaves when the first poll reads the bit clear
FillInit ==
    /\ serial = <<>>
    /\ halted = FALSE
    /\ ops = <<>>
    /\ dat \in Records
    /\ setupPc = "configured"
    /\ has_reset = TRUE
    /\ pollReads = <<0>>
    /\ bus = ResetCalls \o PollCalls(0) \o SignalPathResetCalls \o WakeCalls
    /\ fillPc = "idle"
    /\ rx = <<>>
    /\ burst = <<>>
    /\ fills = 0

\* burst reads on a configured sensor
SpecFill == FillInit /\ [][FillDataMPU6050]_vars

---------------------------------------------------------------------------
(* The whole system: one thread that initializes the sensor once, then    *)
(* fills records and sends frames, and may take the fail-stop path         *)

\* what the device answers to a status poll here: nothing, or the value of
\* the register after a reset (SLEEP set, DEVICE_RESET clear)
SystemPolls == { <<>>, <<64>> }

\* what the device answers to a burst request here: nothing, 14 bytes, or
\* only the first five of them
SystemBursts ==
    { <<>>,
      <<128, 0, 127, 255, 255, 255, 18, 52, 0, 1, 1, 0, 255, 0>>,
      <<128, 0, 127, 255, 255>> }

\* control is not in the while (1) of ERROR
Running == ~halted

\* control is in the caller, between two calls, after initialization
BetweenCalls ==
    /\ Running
    /\ setupPc = "configured"
    /\ fillPc = "idle"
    /\ Len(ops) < MaxSysOps

SystemInit ==
    /\ serial = <<>>
    /\ halted = FALSE
    /\ ops = <<>>
    /\ dat = MkData(<<1, 57920>>, 512, 1, 0, 100, -200, 300, -50, 0, 50)
    /\ SensorIdle

SystemNext ==
    \/ Running /\ SetupReset
    \/ Running /\ SetupPollFrom(SystemPolls)
    \/ Running /\ SetupSignalPathReset
    \/ Running /\ SetupWake
    \/ BetweenCalls /\ FillRequestFrom(SystemBursts)
    \/ Running /\ FillPair("lin_acc_x", "lin_acc_y")
    \/ Running /\ FillPair("lin_acc_y", "lin_acc_z")
    \/ Running /\ FillPair("lin_acc_z", "temperature")
    \/ Running /\ FillTemperature
    \/ Running /\ FillPair("rot_vel_x", "rot_vel_y")
    \/ Running /\ FillPair("rot_vel_y", "rot_vel_z")
    \/ Running /\ FillPair("rot_vel_z", "idle")
    \/ BetweenCalls /\ SendLine(<<Str(<<72, 105>>)>>)
    \/ BetweenCalls /\ SendDataStart
    \/ BetweenCalls /\ SendData
    \/ BetweenCalls /\ SendDataEnd
    \/ BetweenCalls /\ SendHeartbeat
    \/ Running /\ setupPc \in {"idle", "configured"} /\ fillPc = "idle" /\ ERROR

Spec == SystemInit /\ [][SystemNext]_vars

---------------------------------------------------------------------------
(* Claims about the framing protocol *)

\* where the bytes of the i-th operation end in the stream
EndOf(i) == IF i < Len(ops) THEN ops[i + 1].at ELSE Len(serial)

\* the bytes the i-th operation wrote
Wrote(i) == SubSeq(serial, ops[i].at + 1, EndOf(i))

\* the bytes written from the i-th operation on
WroteFrom(i) == SubSeq(serial, ops[i].at + 1, Len(serial))

\* 0, "---ERROR---", '\n', 0, then 255
ErrorStream == <<0, 45, 45, 45, 69, 82, 82, 79, 82, 45, 45, 45, 10, 0, 255>>

\* C1: once ERROR has been triggered, everything on the serial stream from
\* that point on is one Message frame ("---ERROR---", line feed, zero) and
\* one ErrorMarker byte, in this order, and nothing is ever written after
\* them; control never comes back to the caller.
C1_FailStop ==
    \A i \in DOMAIN ops :
        ops[i].op = "ERROR" => WroteFrom(i) = ErrorStream /\ i = Len(ops) /\ halted

\* ERROR was triggered after another frame, with operations left to the caller
C1_Witness ==
    /\ Len(ops) = 2
    /\ ops[1].op = "SendHeartbeat"
    /\ ops[2].op = "ERROR"
    /\ serial = <<250>> \o ErrorStream

\* ops[i..j] is SendDataStart, SendData* , SendDataEnd
IsBatch(i, j) ==
    /\ i < j
    /\ ops[i].op = "SendDataStart"
    /\ ops[j].op = "SendDataEnd"
    /\ \A k \in (i + 1)..(j - 1) : ops[k].op = "SendData"

\* C2: a run SendDataStart, N times SendData, SendDataEnd (N >= 0) writes
\* exactly the tag 1, then N times (tag 2, the sizeof(struct Data) bytes of
\* the record sent), then the tag 3, and nothing else.
C2_Batch ==
    \A i, j \in DOMAIN ops :
        IsBatch(i, j) =>
            LET seg == SubSeq(serial, ops[i].at + 1, EndOf(j))
                N == j - i - 1
                frame == 1 + SizeofData
            IN  /\ Len(seg) = 1 + N * frame + 1
                /\ seg[1] = 1
                /\ seg[Len(seg)] = 3
                /\ \A k \in 1..N :
                    /\ seg[2 + (k - 1) * frame] = 2
                    /\ SubSeq(seg, 3 + (k - 1) * frame, 1 + k * frame)
                         = DataBytes(ops[i + k].arg)

\* a batch of two different records was sent
C2_Witness ==
    /\ Len(ops) = 4
    /\ IsBatch(1, 4)
    /\ ops[2].arg # ops[3].arg
    /\ Len(serial) = 44

\* the empty batch was sent
C2_WitnessEmpty == Len(ops) = 2 /\ IsBatch(1, 2) /\ serial = <<1, 3>>

\* the renderings of args[1..n], in argument order
RECURSIVE Rendered(_, _)
Rendered(args, n) ==
    IF n = 0 THEN <<>> ELSE Rendered(args, n - 1) \o SerialPrint(args[n])

\* C7: Send writes the tag 0, the rendering of each argument in argument
\* order, and one zero byte; SendLine writes the same with one line feed
\* right before the zero byte; neither writes anything else.
C7_MessageFrames ==
    \A i \in DOMAIN ops :
        /\ ops[i].op = "Send" =>
            Wrote(i) = <<0>> \o Rendered(ops[i].arg, Len(ops[i].arg)) \o <<0>>
        /\ ops[i].op = "SendLine" =>
            Wrote(i) = <<0>> \o Rendered(ops[i].arg, Len(ops[i].arg)) \o <<10, 0>>

\* Send("n=", -42) then SendLine(7, "", 250) were called
C7_Witness ==
    /\ Len(ops) = 2
    /\ ops[1].op = "Send"
    /\ ops[2].op = "SendLine"
    /\ serial = <<0, 110, 61, 45, 52, 50, 0>> \o <<0, 55, 50, 53, 48, 10, 0>>

\* a receiver's reading of the bytes of one record, with the layout of
\* struct Data: field order, widths, least significant byte first
Deserialize(b) ==
    MkData(<<b[3] + 256 * b[4], b[1] + 256 * b[2]>>, b[5] + 256 * b[6], b[7], b[8],
           S16(b[9] + 256 * b[10]), S16(b[11] + 256 * b[12]), S16(b[13] + 256 * b[14]),
           S16(b[15] + 256 * b[16]), S16(b[17] + 256 * b[18]), S16(b[19] + 256 * b[20]))

\* every SendData so far wrote the tag 2 and sizeof(struct Data) bytes that
\* deserialize to the record it was given
RoundTrip ==
    \A i \in DOMAIN ops :
        ops[i].op = "SendData" =>
            /\ Len(Wrote(i)) = 1 + SizeofData
            /\ Wrote(i)[1] = 2
            /\ Deserialize(Tail(Wrote(i))) = ops[i].arg

\* a step that is a call of SendData
IsSendDataStep == Len(ops') = Len(ops) + 1 /\ ops'[Len(ops')].op = "SendData"

\* C8: SendData writes the tag 2 and exactly sizeof(struct Data) bytes,
\* which deserialize, with the same layout, to a record equal to the
\* original in every field; SendData leaves the record as it was.
C8_RoundTrip == [](RoundTrip) /\ [][IsSendDataStep => dat' = dat]_vars

\* each of the three records has been sent once
C8_Witness ==
    /\ Len(ops) = 3
    /\ \A i \in 1..3 : ops[i].op = "SendData"
    /\ {ops[i].arg : i \in 1..3} = Records
    /\ Len(serial) = 63

\* a hexadecimal digit, uppercase
HexDigit(c) == IF c < 10 THEN 48 + c ELSE 55 + c

\* the text of a Message frame: what stands between the tag and the
\* terminator (the zero byte, with the line feed before it when there is one)
TextOf(frame) ==
    IF Len(frame) >= 3 /\ frame[Len(frame) - 1] = 10
    THEN SubSeq(frame, 2, Len(frame) - 2)
    ELSE SubSeq(frame, 2, Len(frame) - 1)

\* C3: SendErrorCode(b) writes a Message frame whose text is "  Error: 0x"
\* followed by exactly two uppercase hexadecimal digits of b, zero-padded.
C3_TwoHexDigits ==
    \A i \in DOMAIN ops :
        ops[i].op = "SendErrorCode" =>
            /\ Wrote(i)[1] = 0
            /\ Wrote(i)[Len(Wrote(i))] = 0
            /\ TextOf(Wrote(i)) =
                 <<32, 32, 69, 114, 114, 111, 114, 58, 32, 48, 120>>
                   \o <<HexDigit(ops[i].arg \div 16), HexDigit(ops[i].arg % 16)>>

---------------------------------------------------------------------------
(* Claims about the sensor interface *)

\* bit 7 of the polled status byte reads as clear: a byte below 128 came
ReadsClear(v) == v \in 0..127

\* the calls of one kind in the bus log
Calls(kind) == { i \in DOMAIN bus : bus[i].call = kind }

\* the configuration steps have begun: the settle delay, or a write of the
\* signal-path reset bits or of the wake value
ConfigurationBegun ==
    \/ Calls("delay") # {}
    \/ \E i \in Calls("write") : bus[i].arg \in {7, 0}

\* C4: when the reset bit reads set on the first k-1 polls and clear on
\* the k-th, SetupMPU6050 makes exactly k polls (k one-byte requests, k
\* reads) and goes on to the configuration steps; it polls on as long as no
\* read was clear, and configuration never begins before a clear read.
C4_ExactlyKPolls ==
    LET k == Len(pollReads) IN
    /\ \A i \in 1..(k - 1) : ~ReadsClear(pollReads[i])
    /\ Cardinality({ i \in Calls("requestFrom") : bus[i].arg = 1 }) = k
    /\ Cardinality(Calls("read")) = k
    /\ (k >= 1 /\ ReadsClear(pollReads[k])) <=> setupPc \in {"signal_path_reset", "wake", "configured"}
    /\ ConfigurationBegun => k >= 1 /\ ReadsClear(pollReads[k])

\* the bit read set twice (once as no data), then clear: three polls, configured
C4_Witness ==
    /\ setupPc = "configured"
    /\ pollReads = <<128, -1, 64>>
    /\ Len(bus) = Len(ResetCalls) + 3 * 4 + 5 + 5

\* C5: as long as every poll has read the reset bit as set (a read that
\* delivered nothing included), SetupMPU6050 is still in the polling loop:
\* no settle delay, no signal-path-reset write, no wake write, no return,
\* and nothing on the serial stream.
C5_NeverLeavesLoop ==
    (\A i \in DOMAIN pollReads : ~ReadsClear(pollReads[i])) =>
        /\ setupPc \in {"idle", "poll"}
        /\ ~ConfigurationBegun
        /\ Calls("delay") = {}
        /\ serial = <<>>
        /\ ~halted

\* three polls, none clear, one of them without data: still polling
C5_Witness ==
    /\ setupPc = "poll"
    /\ Len(pollReads) >= 3
    /\ \A i \in DOMAIN pollReads : ~ReadsClear(pollReads[i])
    /\ \E i \in DOMAIN pollReads : pollReads[i] = -1

\* a call of FillDataMPU6050 has returned
FillReturned == fillPc = "idle" /\ fills >= 1

\* the signed 16-bit big-endian value of the bytes hi, lo
BigEndian16(hi, lo) == IF hi >= 128 THEN hi * 256 + lo - 65536 ELSE hi * 256 + lo

MotionFields ==
    { <<"lin_acc_x", 1>>, <<"lin_acc_y", 3>>, <<"lin_acc_z", 5>>,
      <<"rot_vel_x", 9>>, <<"rot_vel_y", 11>>, <<"rot_vel_z", 13>> }

\* C9 as stated: after a burst that delivered fewer than 14 bytes no error
\* is raised or recorded, and the fields decoded from the missing bytes read
\* as zero.
C9_MissingReadsZero ==
    (FillReturned /\ Len(burst) < 14) =>
        /\ ~halted
        /\ serial = <<>>
        /\ \A f \in MotionFields : f[2] > Len(burst) => dat[f[1]] = 0

\* C9, amended: after a burst that delivered fewer than 14 bytes no error is
\* raised or recorded, and every motion field both of whose bytes are
\* missing is -1 (0xFFFF), which is a valid reading.
C9_MissingReadsMinusOne ==
    (FillReturned /\ Len(burst) < 14) =>
        /\ ~halted
        /\ serial = <<>>
        /\ \A f \in MotionFields : f[2] > Len(burst) => dat[f[1]] = -1

\* a burst of 5 bytes came back: two fields decoded, four missing
C9_Witness ==
    /\ FillReturned
    /\ burst = <<0, 100, 255, 56, 1>>
    /\ dat.lin_acc_x = 100
    /\ dat.lin_acc_y = -200
    /\ dat.rot_vel_z = -1

\* C10: no step of FillDataMPU6050 changes micros, analog, btn_0 or btn_1.
C10_OnlyMotionFields ==
    [][ /\ dat'.micros = dat.micros
        /\ dat'.analog = dat.analog
        /\ dat'.btn_0 = dat.btn_0
        /\ dat'.btn_1 = dat.btn_1 ]_vars

\* the second record, filled from the example burst: its motion fields are
\* the burst's, the other four fields its own
C10_Witness ==
    /\ FillReturned
    /\ dat = MkData(<<65535, 65535>>, 1023, 1, 1, 100, -200, 300, -50, 0, 50)

\* where the latest call of FillDataMPU6050 begins in the bus log: the
\* beginTransmission before the latest write of the data register address
LatestFillStart ==
    LET w == { i \in Calls("write") : bus[i].arg = 59 }
    IN  (CHOOSE i \in w : \A j \in w : j <= i) - 1

\* the Wire calls of the latest call of FillDataMPU6050
LatestFillCalls == SubSeq(bus, LatestFillStart, Len(bus))

\* C11: a call of FillDataMPU6050 is one transaction: one write of the
\* address 0x3B inside one transmission, one request for 14 bytes, and then
\* only reads, which take the delivered bytes in order; when it returns it
\* has made exactly 14 reads and no delivered byte is left in the buffer.
\* Every call makes one address write and one request, no more.
C11_OneTransaction ==
    /\ Cardinality({ i \in Calls("write") : bus[i].arg = 59 }) = fills
    /\ Cardinality({ i \in Calls("requestFrom") : bus[i].arg = 14 }) = fills
    /\ fills >= 1 =>
        LET c == LatestFillCalls IN
        /\ Len(c) >= 4 /\ Len(c) <= 4 + 14
        /\ c[1] = [call |-> "beginTransmission", arg |-> 104]
        /\ c[2] = [call |-> "write", arg |-> 59]
        /\ c[3] = [call |-> "endTransmission", arg |-> 0]
        /\ c[4] = [call |-> "requestFrom", arg |-> 14]
        /\ \A j \in 1..(Len(c) - 4) :
            c[4 + j] = [call |-> "read", arg |-> IF j <= Len(burst) THEN burst[j] ELSE -1]
        /\ Len(rx) = IF Len(burst) > Len(c) - 4 THEN Len(burst) - (Len(c) - 4) ELSE 0
        /\ FillReturned => Len(c) = 4 + 14 /\ rx = <<>>

\* a call that was delivered all 14 bytes has returned
C11_Witness ==
    /\ FillReturned
    /\ burst = <<1, 2, 3, 4, 5, 6, 7, 8, 9, 10, 11, 12, 13, 14>>
    /\ Len(LatestFillCalls) = 18
    /\ LatestFillCalls[18] = [call |-> "read", arg |-> 14]

\* a transmission is open before the i-th call: the latest
\* beginTransmission / endTransmission before it is a beginTransmission
OpenBefore(i) ==
    LET marks == { j \in 1..(i - 1) : bus[j].call \in {"beginTransmission", "endTransmission"} }
    IN  /\ marks # {}
        /\ bus[CHOOSE j \in marks : \A m \in marks : m <= j].call = "beginTransmission"

\* C14: every Wire.write is made inside an open transmission, and every
\* endTransmission closes a transmission that was opened; so each status
\* poll of the reset loop is a transmission of its own.
C14_WritesInsideTransmission ==
    \A i \in DOMAIN bus :
        bus[i].call \in {"write", "endTransmission"} => OpenBefore(i)

---------------------------------------------------------------------------
(* The receiver of the serial stream *)

\* the place of the first zero byte of the stream at or after i, 0 when
\* there is none
RECURSIVE FirstZero(_)
FirstZero(i) ==
    IF i > Len(serial) THEN 0
    ELSE IF serial[i] = 0 THEN i
    ELSE FirstZero(i + 1)

Frame(tag, payload) == [tag |-> tag, payload |-> payload]

\* what cannot be read as a frame: an unknown tag, or a frame cut short
Broken(i) == [tag |-> -1, payload |-> SubSeq(serial, i, Len(serial))]

\* the receiver, reading the stream from its i-th byte: read a tag; for
\* tag 0 read up to the next zero byte, for tag 2 read sizeof(struct Data)
\* bytes, for tags 1, 3, 250, 255 nothing
RECURSIVE ReceiveFrom(_)
ReceiveFrom(i) ==
    IF i > Len(serial) THEN <<>>
    ELSE LET tag == serial[i]
         IN  IF tag = 0
             THEN LET z == FirstZero(i + 1)
                  IN  IF z = 0 THEN <<Broken(i)>>
                      ELSE <<Frame(0, SubSeq(serial, i + 1, z - 1))>> \o ReceiveFrom(z + 1)
             ELSE IF tag = 2
             THEN IF Len(serial) < i + 20 THEN <<Broken(i)>>
                  ELSE <<Frame(2, SubSeq(serial, i + 1, i + 20))>> \o ReceiveFrom(i + 21)
             ELSE IF tag \in {1, 3, 250, 255}
             THEN <<Frame(tag, <<>>)>> \o ReceiveFrom(i + 1)
             ELSE <<Broken(i)>>

\* what the receiver makes of the whole stream
Received == ReceiveFrom(1)

\* the frames one operation sends: its tag, and the payload it is given
FramesOf(o) ==
    CASE o.op = "Send" -> <<Frame(0, Rendered(o.arg, Len(o.arg)))>>
      [] o.op = "SendLine" -> <<Frame(0, Rendered(o.arg, Len(o.arg)) \o <<10>>)>>
      [] o.op = "SendErrorCode" ->
            <<Frame(0, ERROR_CODE_PREFIX \o printNumber(o.arg, HEX) \o <<10>>)>>
      [] o.op = "SendDataStart" -> <<Frame(1, <<>>)>>
      [] o.op = "SendData" -> <<Frame(2, DataBytes(o.arg))>>
      [] o.op = "SendDataEnd" -> <<Frame(3, <<>>)>>
      [] o.op = "SendHeartbeat" -> <<Frame(250, <<>>)>>
      [] o.op = "ERROR" -> <<Frame(0, ERROR_TEXT \o <<10>>), Frame(255, <<>>)>>

\* the frames sent by the first n operations, in order
RECURSIVE FramesSent(_)
FramesSent(n) == IF n = 0 THEN <<>> ELSE FramesSent(n - 1) \o FramesOf(ops[n])

\* no zero byte in the text of any message sent
NoZeroInText ==
    \A i \in DOMAIN ops :
        ops[i].op \in {"Send", "SendLine"} =>
            LET text == Rendered(ops[i].arg, Len(ops[i].arg))
            IN  \A j \in DOMAIN text : text[j] # 0

\* C15: after any sequence of send operations whose message texts hold no
\* zero byte, the receiver reads the serial stream as exactly the frames
\* that were sent, in order, whatever bytes the records hold.
C15_ReceiverRecoversFrames ==
    NoZeroInText => Received = FramesSent(Len(ops))

\* a message, a batch with the record whose bytes are frame tags, and a
\* heartbeat were sent and read back as four frames and a fifth
C15_Witness ==
    /\ Len(ops) = 4
    /\ ops[1].op = "SendLine"
    /\ ops[2].op = "SendDataStart"
    /\ ops[3].op = "SendData"
    /\ ops[3].arg.micros = <<770, 256>>
    /\ ops[4].op = "SendHeartbeat"
    /\ Len(Received) = 4
    /\ Received[3] = Frame(2, <<0, 1, 2, 3, 1, 250, 0, 1, 1, 2, 3, 0, 250, 255, 255, 0, 250, 0, 0, 255>>)

---------------------------------------------------------------------------
(* Claims about the whole system *)

\* the bus log without the transmission brackets and the reads: the bytes
\* written, the requests and the delays
IsBusOperation(e) == e.call \in {"write", "requestFrom", "delay"}

\* n times the sequence s
RECURSIVE Times(_, _)
Times(n, s) == IF n = 0 THEN <<>> ELSE s \o Times(n - 1, s)

\* C12: when SetupMPU6050 has completed, the bus operations so far are, in
\* this order: the write of 0x80 to register 0x6B, the status polls, a
\* delay, the write of 0x07 to register 0x68, a delay, the write of 0x00 to
\* register 0x6B, and after that only what the calls of FillDataMPU6050
\* do: the address 0x3B and a request for 14 bytes each, never a write to
\* register 0x6B or 0x68 again.
C12_SetupOrder ==
    setupPc = "configured" =>
        SelectSeq(bus, IsBusOperation) =
            << [call |-> "write", arg |-> 107], [call |-> "write", arg |-> 128] >>
            \o Times(Len(pollReads),
                     << [call |-> "write", arg |-> 107], [call |-> "requestFrom", arg |-> 1] >>)
            \o << [call |-> "delay", arg |-> 100],
                  [call |-> "write", arg |-> 104], [call |-> "write", arg |-> 7],
                  [call |-> "delay", arg |-> 100],
                  [call |-> "write", arg |-> 107], [call |-> "write", arg |-> 0] >>
            \o Times(fills,
                     << [call |-> "write", arg |-> 59], [call |-> "requestFrom", arg |-> 14] >>)

\* setup took two polls and a call of FillDataMPU6050 has returned since
C12_Witness ==
    /\ setupPc = "configured"
    /\ Len(pollReads) = 2
    /\ FillReturned
    /\ burst # <<>>

\* the fail-stop path has been taken
Errored == \E i \in DOMAIN ops : ops[i].op = "ERROR"

\* C13: once the fail-stop path has written the ErrorMarker, control stays
\* in its loop and no step is ever taken again: no call on the bus, no byte
\* on the serial stream, no change of any state.
C13_HaltedForEver ==
    /\ [](Errored => halted /\ serial[Len(serial)] = 255)
    /\ [][Errored => UNCHANGED vars]_vars

\* the fail-stop path was taken after initialization and a burst read, as
\* the first send operation: the caller had more to send
C13_Witness ==
    /\ Errored
    /\ Len(ops) = 1
    /\ Len(ops) < MaxSysOps
    /\ fills = 1
    /\ setupPc = "configured"
    /\ serial = ErrorStream

====
